---------------------------- MODULE Spec2Model ----------------------------
(***************************************************************************)
(* Model of curvefi/gas-bridger: the deploy workflow (deploy/deploy.py),   *)
(* the JSON config store (gas_bridger/relayer_config.py) and the network   *)
(* registry (gas_bridger/constants.py, lz_endpoints in deploy.py).         *)
(*                                                                         *)
(* Text is a sequence of one-character strings, bytes are sequences of     *)
(* numbers in 0..255.  A 32-bit unsigned number is kept as two 16-bit      *)
(* halves, because 4294967294 does not fit TLC's 32-bit integers.          *)
(***************************************************************************)
EXTENDS Integers, Sequences, FiniteSets, TLC

\* ------------------------------------------------------------- bounds
\* Number of distinct 11-byte values os.urandom may return in the model.
NumRandom == 2

\* The operating-system processes that run an entry point: two, enough for
\* one run to overlap another.
Procs == {1, 2}

\* ------------------------------------------------------ text and bytes
Digits == <<"0", "1", "2", "3", "4", "5", "6", "7", "8", "9">>
HexLower == Digits \o <<"a", "b", "c", "d", "e", "f">>
HexUpper == Digits \o <<"A", "B", "C", "D", "E", "F">>

IsDigit(c) == \E i \in 1..10 : Digits[i] = c
IsHexDigit(c) == \E i \in 1..16 : HexLower[i] = c \/ HexUpper[i] = c
DigitVal(c) == (CHOOSE i \in 1..10 : Digits[i] = c) - 1
HexVal(c) == (CHOOSE i \in 1..16 : HexLower[i] = c \/ HexUpper[i] = c) - 1

\* str(n) of a non-negative int: its decimal digits.
RECURSIVE Dec(_)
Dec(n) == IF n < 10 THEN <<Digits[n + 1]>>
          ELSE Dec(n \div 10) \o <<Digits[(n % 10) + 1]>>

\* int(s) of a string of decimal digits.
RECURSIVE ParseDec(_)
ParseDec(s) == IF Len(s) = 0 THEN 0
               ELSE 10 * ParseDec(SubSeq(s, 1, Len(s) - 1)) + DigitVal(s[Len(s)])

\* bytes.fromhex(s): every two hex digits (either case) make one byte.
FromHex(s) == [i \in 1..(Len(s) \div 2) |-> 16 * HexVal(s[2 * i - 1]) + HexVal(s[2 * i])]

\* The "0x"-prefixed hex string of a 20-byte address.  The letters that the
\* checksum puts in upper case depend on a hash of the address; `upper` is the
\* set of digit positions (1..40) it selects.
AddressText(b, upper) ==
    <<"0", "x">> \o
    [i \in 1..(2 * Len(b)) |->
        LET byte == b[(i + 1) \div 2]
            nib  == IF i % 2 = 1 THEN byte \div 16 ELSE byte % 16
        IN  IF i \in upper THEN HexUpper[nib + 1] ELSE HexLower[nib + 1]]

\* A 32-bit unsigned value as two 16-bit halves: hi * 65536 + lo.
U32(hi, lo) == [hi |-> hi, lo |-> lo]

\* ------------------------------------------------------ Python values
PyInt(n) == [t |-> "int", n |-> n, s |-> <<>>]
PyStr(s) == [t |-> "str", n |-> 0, s |-> s]
\* An int too large for TLC's integers, kept by its hexadecimal text.
PyBigInt(s) == [t |-> "int", n |-> -1, s |-> s]

\* {}: the dict with no entries.  A dict is a function from keys to values.
EmptyDict == [k \in {} |-> PyInt(0)]

\* d[k] = v on a dict (inserts or overwrites).
DictSet(d, k, v) == [x \in (DOMAIN d) \cup {k} |-> IF x = k THEN v ELSE d[x]]

\* A file that does not exist, and a file holding a mapping's entries.  Each
\* entry is a key scalar and a value scalar; a scalar is its text and whether it
\* is written in quotes.
Absent == [exists |-> FALSE, entries |-> {}]
FileOf(es) == [exists |-> TRUE, entries |-> es]
Scalar(q, text) == [quoted |-> q, text |-> text]


\* ------------------------------------------------------- YAML (PyYAML)
\* Whether a plain (unquoted) scalar resolves to an int when loaded: decimal
\* digits without a leading zero, or 0x followed by hex digits.
YamlIsInt(text) ==
    \/ /\ Len(text) >= 1
       /\ \A i \in 1..Len(text) : IsDigit(text[i])
       /\ (Len(text) = 1 \/ text[1] # "0")
    \/ /\ Len(text) >= 3
       /\ text[1] = "0" /\ text[2] = "x"
       /\ \A i \in 3..Len(text) : IsHexDigit(text[i])

\* yaml.safe_dump of one scalar: an int as its plain decimal digits, a str
\* plain unless that text would load back as an int, and then in quotes.
YamlRepr(v) ==
    IF v.t = "int" THEN Scalar(FALSE, IF v.n >= 0 THEN Dec(v.n) ELSE v.s)
    ELSE Scalar(YamlIsInt(v.s), v.s)

\* yaml.safe_load of one scalar: quoted text is a str, plain text is resolved.
YamlValue(tok) ==
    IF tok.quoted THEN PyStr(tok.text)
    ELSE IF ~YamlIsInt(tok.text) THEN PyStr(tok.text)
    ELSE IF Len(tok.text) >= 3 /\ tok.text[2] = "x" THEN PyBigInt(tok.text)
    ELSE PyInt(ParseDec(tok.text))

\* yaml.safe_dump(deployments, file): the file is overwritten with the dict.
YamlDump(d) == FileOf({[key |-> YamlRepr(k), val |-> YamlRepr(d[k])] : k \in DOMAIN d})

\* yaml.safe_load(file) of a file holding a mapping.
YamlLoad(f) ==
    [k \in {YamlValue(e.key) : e \in f.entries} |->
        YamlValue((CHOOSE e \in f.entries : YamlValue(e.key) = k).val)]

\* deployments = {}; if yaml_file_path.exists(): deployments = yaml.safe_load(file)
YamlLoadIgnored(f) == EmptyDict
YamlLoadOrEmpty(f) == IF f.exists THEN YamlLoad(f) ELSE EmptyDict

\* ---------------------------------------------------------------- JSON
\* json.dump of a dict key: always a string; an int key becomes its digits.
JsonKey(k) == Scalar(TRUE, IF k.t = "int" THEN Dec(k.n) ELSE k.s)

\* json.dump of a value: a str in quotes, an int as a plain number.
JsonRepr(v) == IF v.t = "int" THEN Scalar(FALSE, Dec(v.n)) ELSE Scalar(TRUE, v.s)

\* json.loads of one scalar: quoted text is a str, a plain number an int.
JsonValue(tok) == IF tok.quoted THEN PyStr(tok.text) ELSE PyInt(ParseDec(tok.text))

\* json.dump(json_config, f, indent=4): the file is overwritten with the dict.
JsonDump(d) == FileOf({[key |-> JsonKey(k), val |-> JsonRepr(d[k])] : k \in DOMAIN d})

\* json.loads(f.read()): object keys are strings.
JsonLoad(f) ==
    [k \in {JsonValue(e.key) : e \in f.entries} |->
        JsonValue((CHOOSE e \in f.entries : JsonValue(e.key) = k).val)]

\* What load_config returns: None or a dict.
RetNone == [kind |-> "None", d |-> EmptyDict]
RetDict(d) == [kind |-> "dict", d |-> d]
RetUnset == [kind |-> "unset", d |-> EmptyDict]

\* ChainMarketManager.load_config
LoadConfigEmptyWhenMissing(f) == IF ~f.exists THEN RetDict(EmptyDict) ELSE RetDict(JsonLoad(f))
load_config(f) == IF ~f.exists THEN RetNone ELSE RetDict(JsonLoad(f))

\* ChainMarketManager.update_config
update_config(json_config) == JsonDump(json_config)

\* ---------------------------------------------------- network registry
ArbitrumSepolia == 421614
Sepolia == 11155111
\* class Network(IntEnum): the chains that are not commented out.
Network == {ArbitrumSepolia, Sepolia}

\* LZ_EID: dict[int, int]
LZ_EID == [c \in {ArbitrumSepolia, Sepolia} |-> U32(0, 1)]

\* lz_endpoints: chain ID -> address text of the messaging endpoint.
LzEndpointAddress ==
    <<"0", "x", "6", "E", "D", "C", "E", "6", "5", "4", "0", "3", "9", "9", "2",
      "e", "3", "1", "0", "A", "6", "2", "4", "6", "0", "8", "0", "8", "c", "4",
      "b", "9", "1", "0", "D", "9", "7", "2", "f", "1", "0", "f">>
lz_endpoints_missing_home == [c \in {421614} |-> LzEndpointAddress]
lz_endpoints == [c \in {421614, 11155111} |-> LzEndpointAddress]

\* A dict lookup table[key]: the value, or KeyError when the key is absent.
Lookup(table, key) ==
    IF key \in DOMAIN table THEN [ok |-> TRUE, v |-> table[key]]
    ELSE [ok |-> FALSE, v |-> "KeyError"]

\* The literals of deploy(): the home chain, and set_peer's first argument.
HomeChainId == 11155111
PeerEid == U32(65535, 65534)

\* The chain IDs an RPC endpoint may report: the two supported ones and one
\* that neither table knows (1, Ethereum mainnet).
ChainIds == {ArbitrumSepolia, Sepolia, 1}

\* --------------------------------------------------------- environment
\* The 20-byte accounts a signing key (settings.WEB3_PK) may stand for, each
\* with the digit positions its checksummed text writes in upper case.
Accounts ==
    { [bytes |-> [i \in 1..20 |-> 171], upper |-> {}],
      [bytes |-> [i \in 1..20 |-> (i * 29 + 7) % 256], upper |-> {i \in 1..40 : i % 3 = 0}] }

\* The values os.urandom(11) may return.
RandomDraws == { [i \in 1..11 |-> (k * 97 + i * 13) % 256] : k \in 1..NumRandom }

\* The address deployCreate3 returns, as text.  The factory derives it from
\* the salt alone (not from the bytecode or the chain) by a hash; the model
\* mixes the salt's bytes in its place, so that different salts give different
\* addresses.
Create3Address(salt) ==
    AddressText([i \in 1..20 |-> (salt[i] + 7 * salt[i + 12]) % 256],
                {i \in 1..40 : i % 2 = salt[32] % 2})

\* The dicts a caller may pass to update_config: chain IDs to addresses.
ConfigInputs ==
    LET a == AddressText([i \in 1..20 |-> (i * 11) % 256], {})
        one == DictSet(EmptyDict, PyInt(ArbitrumSepolia), PyStr(a))
    IN  {EmptyDict, one, DictSet(one, PyInt(Sepolia), PyStr(a))}

\* ---------------------------------------------------------------- state
VARIABLES
    sched,        \* how the operator launches runs: "sequential" or "rollout"
    account,      \* the account of settings.WEB3_PK (deployer, deploy.py line 13)
    yamlFile,     \* deploy/deployments.yaml
    jsonFile,     \* gas_bridger/deployments.json
    abiFile,      \* gas_bridger/abi/gas_relayer.json: "absent" or "written"
    jsonArg,      \* the argument of the last update_config call
    pc,           \* each process's position
    entry,        \* each process's entry point
    chain_id,     \* boa.env.evm.patch.chain_id as read by the run (0: not read)
    bytes_view,   \* os.urandom(11)
    salt_view,    \* guard_bytes + bytes_view
    address,      \* what deployCreate3 returned
    deployments,  \* the run's local dict
    failure,      \* the error that ended the run, or "none"
    peerRun,      \* whether the run entered set_peer()
    factoryCalls, \* the salts the run passed to deployCreate3
    peerCalls,    \* the contract.set_peer calls the run sent
    ret           \* what load_config returned to the run

vars == <<sched, account, yamlFile, jsonFile, abiFile, jsonArg, pc, entry, chain_id,
          bytes_view, salt_view, address, deployments, failure, peerRun,
          factoryCalls, peerCalls, ret>>

files == <<yamlFile, jsonFile, abiFile, jsonArg>>
locals == <<chain_id, bytes_view, salt_view, address, deployments, failure,
            peerRun, factoryCalls, peerCalls, ret>>

\* boa.env.eoa: the deployer's address as text.
eoa == AddressText(account.bytes, account.upper)

\* No run in progress, deployments.json and the ABI file not written yet.
InitRest ==
    /\ jsonFile = Absent
    /\ abiFile = "absent"
    /\ jsonArg = EmptyDict
    /\ pc = [p \in Procs |-> "idle"]
    /\ entry = [p \in Procs |-> "none"]
    /\ chain_id = [p \in Procs |-> 0]
    /\ bytes_view = [p \in Procs |-> <<>>]
    /\ salt_view = [p \in Procs |-> <<>>]
    /\ address = [p \in Procs |-> <<>>]
    /\ deployments = [p \in Procs |-> EmptyDict]
    /\ failure = [p \in Procs |-> "none"]
    /\ peerRun = [p \in Procs |-> FALSE]
    /\ factoryCalls = [p \in Procs |-> <<>>]
    /\ peerCalls = [p \in Procs |-> <<>>]
    /\ ret = [p \in Procs |-> RetUnset]

\* Runs launched one after the other, from a store that is missing or empty.
Init ==
    /\ sched = "sequential"
    /\ account \in Accounts
    /\ yamlFile \in {Absent, FileOf({})}
    /\ InitRest

\* A rollout: deploy runs launched at once, on first use (no store yet).
InitRace ==
    /\ sched = "rollout"
    /\ account = CHOOSE a \in Accounts : a.upper = {}
    /\ yamlFile = Absent
    /\ InitRest

\* A run ends with an error: the process exits with a traceback.
Raise(p, err) ==
    /\ failure' = [failure EXCEPT ![p] = err]
    /\ pc' = [pc EXCEPT ![p] = "done"]

Goto(p, label) ==
    /\ pc' = [pc EXCEPT ![p] = label]
    /\ failure' = failure

\* The operator starts entry point e in process p.  Run one after the other, a
\* run starts only when no other run is in progress; in a rollout the operator
\* starts deploy runs for several chains without waiting for one another.
Launch(p, e) ==
    /\ pc[p] = "idle"
    /\ sched = "sequential" => \A q \in Procs \ {p} : pc[q] = "idle"
    /\ sched = "rollout" => e = "deploy"
    /\ entry' = [entry EXCEPT ![p] = e]

\* ------------------------------------------------------------- deploy()
\* guard_bytes = bytes.fromhex(boa.env.eoa[2:] + "00");
\* salt_view = guard_bytes + os.urandom(11).
SaltWrongFlag(e, r) == FromHex(SubSeq(e, 3, Len(e)) \o <<"0", "1">>) \o r
Salt(e, r) == FromHex(SubSeq(e, 3, Len(e)) \o <<"0", "0">>) \o r

\* Lines 27-41, the steps before anything is sent: connect to the RPC endpoint
\* and read the chain ID (an unreachable endpoint ends the run), build the salt,
\* and encode the constructor arguments, which need lz_endpoints[chain_id]: a
\* chain the table does not hold raises KeyError (the spec's UnsupportedChain).
DeployPrepare(p) ==
    /\ Launch(p, "deploy")
    /\ \/ \E c \in ChainIds, r \in RandomDraws :
             /\ chain_id' = [chain_id EXCEPT ![p] = c]
             /\ bytes_view' = [bytes_view EXCEPT ![p] = r]
             /\ salt_view' = [salt_view EXCEPT ![p] = Salt(eoa, r)]
             /\ IF Lookup(lz_endpoints, c).ok
                   THEN Goto(p, "create")
                   ELSE Raise(p, "UnsupportedChain")
       \/ /\ Raise(p, "ConnectionError")
          /\ UNCHANGED <<chain_id, bytes_view, salt_view>>
    /\ UNCHANGED <<sched, account, files, address, deployments, peerRun,
                   factoryCalls, peerCalls, ret>>

\* Lines 43-49: deployCreate3(salt_view, deploycode) on the factory.  It returns
\* the new contract's address, and the contract's ABI is written to
\* gas_bridger/abi/gas_relayer.json; or the transaction fails and the run ends.
DeployCreate3(p) ==
    /\ pc[p] = "create"
    /\ factoryCalls' = [factoryCalls EXCEPT ![p] = Append(@, salt_view[p])]
    /\ \/ /\ address' = [address EXCEPT ![p] = Create3Address(salt_view[p])]
          /\ abiFile' = "written"
          /\ Goto(p, "read")
       \/ /\ Raise(p, "DeploymentFailed")
          /\ UNCHANGED <<address, abiFile>>
    /\ UNCHANGED <<sched, account, yamlFile, jsonFile, jsonArg, entry, chain_id,
                   bytes_view, salt_view, deployments, peerRun, peerCalls, ret>>

\* Lines 51-54: the current mapping is read from deployments.yaml.
DeployReadYaml(p) ==
    /\ pc[p] = "read"
    /\ deployments' = [deployments EXCEPT ![p] = YamlLoadOrEmpty(yamlFile)]
    /\ Goto(p, "write")
    /\ UNCHANGED <<sched, account, files, entry, chain_id, bytes_view, salt_view,
                   address, peerRun, factoryCalls, peerCalls, ret>>

\* deployments[chain_id] = str(address)
PersistNothing(d, c, a) == d
Persist(d, c, a) == DictSet(d, PyInt(c), PyStr(a))

\* if chain_id != 11155111: set_peer()
CallsSetPeerAlways(c) == TRUE
CallsSetPeer(c) == c # HomeChainId

\* Lines 56-62: the record is put into the dict and the YAML file is overwritten
\* with the dict (deployments.json is not written); then set_peer() is called
\* unless the chain is the home chain.
DeployWriteYaml(p) ==
    /\ pc[p] = "write"
    /\ deployments' = [deployments EXCEPT ![p] = Persist(@, chain_id[p], address[p])]
    /\ yamlFile' = YamlDump(deployments'[p])
    /\ IF CallsSetPeer(chain_id[p]) THEN Goto(p, "sp_connect") ELSE Goto(p, "done")
    /\ UNCHANGED <<sched, account, jsonFile, abiFile, jsonArg, entry, chain_id,
                   bytes_view, salt_view, address, peerRun, factoryCalls, peerCalls, ret>>

\* ----------------------------------------------------------- set_peer()
\* Lines 66-73: set_peer connects and reads the chain ID, then reads the mapping
\* from deployments.yaml.  It is an entry point of its own, and the last step of
\* deploy(), where it reaches the same endpoint, hence the same chain.
SetPeerReadYaml(p) ==
    /\ \/ Launch(p, "set_peer")
       \/ pc[p] = "sp_connect" /\ UNCHANGED entry
    /\ peerRun' = [peerRun EXCEPT ![p] = TRUE]
    /\ \/ \E c \in ChainIds :
             /\ chain_id[p] # 0 => c = chain_id[p]
             /\ chain_id' = [chain_id EXCEPT ![p] = c]
             /\ deployments' = [deployments EXCEPT ![p] = YamlLoadOrEmpty(yamlFile)]
             /\ Goto(p, "sp_call")
       \/ /\ Raise(p, "ConnectionError")
          /\ UNCHANGED <<chain_id, deployments>>
    /\ UNCHANGED <<sched, account, files, bytes_view, salt_view, address,
                   factoryCalls, peerCalls, ret>>

\* Lines 75-76: deployments[chain_id] names the contract, deployments[11155111]
\* the peer; either lookup raises KeyError (the spec's NotDeployed) when the
\* record is missing, before anything is sent.
PeerCallUnchecked(d, c) ==
    [ok |-> TRUE,
     at |-> IF PyInt(c) \in DOMAIN d THEN d[PyInt(c)] ELSE PyStr(<<>>),
     eid |-> PeerEid,
     peer |-> IF PyInt(HomeChainId) \in DOMAIN d THEN d[PyInt(HomeChainId)] ELSE PyStr(<<>>)]
PeerCall(d, c) ==
    IF Lookup(d, PyInt(c)).ok /\ Lookup(d, PyInt(HomeChainId)).ok
       THEN [ok |-> TRUE, at |-> d[PyInt(c)], eid |-> PeerEid, peer |-> d[PyInt(HomeChainId)]]
       ELSE [ok |-> FALSE, at |-> PyStr(<<>>), eid |-> PeerEid, peer |-> PyStr(<<>>)]

SetPeerCall(p) ==
    /\ pc[p] = "sp_call"
    /\ LET call == PeerCall(deployments[p], chain_id[p])
       IN  IF call.ok
              THEN /\ peerCalls' = [peerCalls EXCEPT ![p] =
                                       Append(@, [at |-> call.at, eid |-> call.eid, peer |-> call.peer])]
                   /\ Goto(p, "done")
              ELSE /\ Raise(p, "NotDeployed")
                   /\ UNCHANGED peerCalls
    /\ UNCHANGED <<sched, account, files, entry, chain_id, bytes_view, salt_view,
                   address, deployments, peerRun, factoryCalls, ret>>

\* --------------------------------------------------- ChainMarketManager
\* update_config(json_config): deployments.json is overwritten.
UpdateConfig(p) ==
    /\ Launch(p, "update_config")
    /\ \E m \in ConfigInputs :
          /\ jsonArg' = m
          /\ jsonFile' = update_config(m)
    /\ Goto(p, "done")
    /\ UNCHANGED <<sched, account, yamlFile, abiFile, locals>>

\* load_config(): None when the file is missing, else the parsed JSON.
LoadConfig(p) ==
    /\ Launch(p, "load_config")
    /\ ret' = [ret EXCEPT ![p] = load_config(jsonFile)]
    /\ Goto(p, "done")
    /\ UNCHANGED <<sched, account, files, chain_id, bytes_view, salt_view,
                   address, deployments, peerRun, factoryCalls, peerCalls>>

\* The process exits; its memory is gone, the files stay.
Exit(p) ==
    /\ pc[p] = "done"
    /\ pc' = [pc EXCEPT ![p] = "idle"]
    /\ entry' = [entry EXCEPT ![p] = "none"]
    /\ chain_id' = [chain_id EXCEPT ![p] = 0]
    /\ bytes_view' = [bytes_view EXCEPT ![p] = <<>>]
    /\ salt_view' = [salt_view EXCEPT ![p] = <<>>]
    /\ address' = [address EXCEPT ![p] = <<>>]
    /\ deployments' = [deployments EXCEPT ![p] = EmptyDict]
    /\ failure' = [failure EXCEPT ![p] = "none"]
    /\ peerRun' = [peerRun EXCEPT ![p] = FALSE]
    /\ factoryCalls' = [factoryCalls EXCEPT ![p] = <<>>]
    /\ peerCalls' = [peerCalls EXCEPT ![p] = <<>>]
    /\ ret' = [ret EXCEPT ![p] = RetUnset]
    /\ UNCHANGED <<sched, account, files>>

Next ==
    \E p \in Procs :
       \/ DeployPrepare(p)
       \/ DeployCreate3(p)
       \/ DeployReadYaml(p)
       \/ DeployWriteYaml(p)
       \/ SetPeerReadYaml(p)
       \/ SetPeerCall(p)
       \/ UpdateConfig(p)
       \/ LoadConfig(p)
       \/ Exit(p)

Spec == Init /\ [][Next]_vars

\* Sequential launching and a rollout side by side.
SpecRace == (Init \/ InitRace) /\ [][Next]_vars

\* ------------------------------------------------------------ the claims
\* What the store file holds, read off its text: whether it has a record for
\* chain c, and that record's address text.
StoreHas(c) == yamlFile.exists /\ \E e \in yamlFile.entries : e.key.text = Dec(c)
StoreText(c) == (CHOOSE e \in yamlFile.entries : e.key.text = Dec(c)).val.text

\* A file's mapping as pairs of key text and value text (none when it is missing).
FileMapping(f) == {<<e.key.text, e.val.text>> : e \in f.entries}

\* Run p is a deploy that has completed its persist step (lines 51-59).
Persisted(p) ==
    /\ entry[p] = "deploy"
    /\ pc[p] \in {"sp_connect", "sp_call", "done"}
    /\ address[p] # <<>>

\* Run p has entered set_peer(), or is at the call of it.
SetPeerInvoked(p) == peerRun[p] \/ pc[p] = "sp_connect"

\* Run p went through set_peer() up to its lookups (the connection held).
SetPeerDecided(p) == peerRun[p] /\ pc[p] = "done" /\ failure[p] # "ConnectionError"

\* C1: a deploy run that has completed its persist step invokes set_peer if
\* and only if its chain is not the home chain 11155111.
C1_SetPeerIffNotHome ==
    \A p \in Procs : Persisted(p) => (SetPeerInvoked(p) <=> chain_id[p] # 11155111)

C1_Witness ==
    \E p \in Procs : Persisted(p) /\ chain_id[p] = 421614 /\ peerRun[p] /\ pc[p] = "done"

\* C2: a set_peer run that got its connection sends the registration call only
\* when the store has a record for the home chain and one for the connected
\* chain; otherwise it fails with NotDeployed and sends nothing.
C2_NotDeployedUnlessBoth ==
    \A p \in Procs :
        SetPeerDecided(p) =>
            IF StoreHas(11155111) /\ StoreHas(chain_id[p])
               THEN failure[p] = "none" /\ Len(peerCalls[p]) = 1
               ELSE failure[p] = "NotDeployed" /\ peerCalls[p] = <<>>

C2_Witness ==
    \E p \in Procs :
        /\ entry[p] = "set_peer" /\ SetPeerDecided(p)
        /\ StoreHas(chain_id[p]) /\ ~StoreHas(11155111)
        /\ failure[p] = "NotDeployed" /\ peerCalls[p] = <<>>

\* C3: a deploy on chain 421614 whose connection holds and whose factory call
\* succeeds ends with the store holding 421614 -> the returned address and the
\* ABI file written, and then with exactly one registration call carrying
\* (4294967294, the recorded address of chain 11155111) when the home chain has
\* a record, or with NotDeployed and no call when it has none.
C3_EndToEnd ==
    \A p \in Procs :
        ( /\ Persisted(p) /\ pc[p] = "done"
          /\ chain_id[p] = 421614 /\ failure[p] # "ConnectionError" ) =>
            /\ StoreHas(421614) /\ StoreText(421614) = address[p]
            /\ abiFile = "written"
            /\ IF StoreHas(11155111)
                  THEN /\ failure[p] = "none"
                       /\ peerCalls[p] = << [at |-> PyStr(address[p]),
                                             eid |-> U32(65535, 65534),
                                             peer |-> PyStr(StoreText(11155111))] >>
                  ELSE /\ failure[p] = "NotDeployed"
                       /\ peerCalls[p] = <<>>

\* The run started from a store without entries: it ends with one entry only.
C3_Witness ==
    \E p \in Procs :
        /\ Persisted(p) /\ pc[p] = "done" /\ chain_id[p] = 421614
        /\ FileMapping(yamlFile) = {<<Dec(421614), address[p]>>}
        /\ failure[p] = "NotDeployed" /\ peerCalls[p] = <<>>

\* C4: once a deploy run has completed its persist step, deployments.yaml and
\* deployments.json hold the same mapping, and it has the new chain's record.
C4_FilesAgree ==
    \A p \in Procs :
        Persisted(p) =>
            /\ FileMapping(jsonFile) = FileMapping(yamlFile)
            /\ <<Dec(chain_id[p]), address[p]>> \in FileMapping(jsonFile)

\* C5: load_config after update_config(m) returns a mapping equal to m.
C5_RoundTrip ==
    \A p \in Procs :
        (entry[p] = "load_config" /\ pc[p] = "done" /\ jsonFile.exists) =>
            ret[p] = RetDict(jsonArg)

\* C6 as stated: a load of a store whose file is missing returns an empty
\* mapping, in load_config and in the YAML loads of deploy and set_peer.
C6_EmptyMappingEverywhere ==
    \A p \in Procs :
        /\ (entry[p] = "load_config" /\ pc[p] = "done" /\ ~jsonFile.exists) =>
               ret[p] = RetDict(EmptyDict)
        /\ (pc[p] \in {"write", "sp_call"} /\ ~yamlFile.exists) =>
               deployments[p] = EmptyDict

\* C6 as amended: a load of a store whose file is missing raises no error; the
\* YAML loads of deploy and set_peer yield an empty mapping, and load_config
\* returns None.
C6_NoErrorOnMissingFile ==
    \A p \in Procs :
        /\ (entry[p] = "load_config" /\ pc[p] = "done" /\ ~jsonFile.exists) =>
               ret[p] = RetNone /\ failure[p] = "none"
        /\ (pc[p] \in {"write", "sp_call"} /\ ~yamlFile.exists) =>
               deployments[p] = EmptyDict /\ failure[p] = "none"

C6_Witness ==
    \E p \in Procs :
        entry[p] = "load_config" /\ pc[p] = "done" /\ ~jsonFile.exists /\ ret[p] = RetNone

\* C7: the endpoint identifier of every registration call is the registry's
\* LZ_EID[Network.Sepolia].
C7_EidFromRegistry ==
    \A p \in Procs :
        \A i \in 1..Len(peerCalls[p]) : peerCalls[p][i].eid = LZ_EID[Sepolia]

\* C8: lz_endpoints and LZ_EID hold exactly the supported chains 421614 and
\* 11155111: on those a deploy run gets its endpoint and both lookups give a
\* value, on any other chain both lookups fail and the run ends with
\* UnsupportedChain.
C8_LookupsTotalOnSupported ==
    /\ DOMAIN lz_endpoints = DOMAIN LZ_EID
    /\ \A p \in Procs :
          (entry[p] = "deploy" /\ chain_id[p] # 0) =>
              IF chain_id[p] \in {421614, 11155111}
                 THEN /\ Lookup(lz_endpoints, chain_id[p]).ok
                      /\ Lookup(LZ_EID, chain_id[p]).ok
                      /\ failure[p] # "UnsupportedChain"
                 ELSE /\ ~Lookup(lz_endpoints, chain_id[p]).ok
                      /\ ~Lookup(LZ_EID, chain_id[p]).ok
                      /\ failure[p] = "UnsupportedChain"

C8_Witness ==
    \E p \in Procs : entry[p] = "deploy" /\ chain_id[p] = 1 /\ failure[p] = "UnsupportedChain"

\* C9: every salt passed to deployCreate3 is 32 bytes long: the deployer's 20
\* address bytes, the flag byte 0, then the 11 random bytes.
C9_SaltLayout ==
    \A p \in Procs :
        \A i \in 1..Len(factoryCalls[p]) :
            LET s == factoryCalls[p][i]
            IN  /\ Len(s) = 32
                /\ SubSeq(s, 1, 20) = account.bytes
                /\ s[21] = 0
                /\ Len(bytes_view[p]) = 11
                /\ SubSeq(s, 22, 32) = bytes_view[p]

C9_Witness ==
    \E p \in Procs : Len(factoryCalls[p]) = 1 /\ address[p] # <<>>

\* C10: with runs launched one after the other no step removes a chain's
\* record from the store, so the mapping keeps the record of every deployment;
\* runs launched at once can end with a record missing (the witness).
C10_SequentialKeepsRecords ==
    [][ sched = "sequential" =>
           \A c \in ChainIds : StoreHas(c) => StoreHas(c)' ]_vars

\* Two deploys for different chains have both persisted, and the store lacks
\* the record of one of them.
C10_Witness ==
    /\ sched = "rollout"
    /\ \E p, q \in Procs :
          /\ Persisted(p) /\ Persisted(q)
          /\ chain_id[p] # chain_id[q]
          /\ ~StoreHas(chain_id[p])

=============================================================================
